---- MODULE Spec2Model ----
(***************************************************************************)
(* Model of build_ai_acceptance_dashboard.py: the per-dataset pipeline     *)
(* _prepare_dataset (load, sort, coerce, derive, resample, KPIs, table),   *)
(* the report assembler build_dashboard (slugs, unique ids, payload map,   *)
(* statically rendered first dataset, output file) and the embedded        *)
(* client-side switcher renderRepo.                                        *)
(*                                                                         *)
(* Text is modelled as a sequence of one-character strings, so that        *)
(* lower-casing, slugs, suffixes and number formatting are computed.       *)
(* A float is a pair <<n, d>>: the rational n/d in lowest terms when       *)
(* d > 0, and NaN, +inf, -inf when d = 0 (n = 0, 1, -1).                    *)
(***************************************************************************)
EXTENDS Integers, Sequences, FiniteSets, TLC

\* ------------------------------------------------------------------ bounds
MaxRows == 3        \* rows of a CSV
MaxDatasets == 3    \* dataset specifications of one run

\* ------------------------------------------------------- program constants
RollWindow == 7     \* rolling(7, ...)
MinPeriods == 1     \* min_periods=1
FirstSuffix == 2    \* index = 2 in _unique_id
Decimals == 3       \* f"{float(value):.3f}"

TicksPerDay == 2    \* clock ticks of one UTC calendar day

\* ------------------------------------------------------------------ floats
NaN == <<0, 0>>
PosInf == <<1, 0>>
NegInf == <<-1, 0>>

Abs(n) == IF n < 0 THEN -n ELSE n
Sign(n) == IF n < 0 THEN -1 ELSE IF n = 0 THEN 0 ELSE 1

RECURSIVE Gcd(_, _)
Gcd(a, b) == IF b = 0 THEN a ELSE Gcd(b, a % b)

Rat(n, d) == LET g == Gcd(Abs(n), d) IN <<n \div g, d \div g>>
FromInt(n) == <<n, 1>>

IsNaN(v) == v = NaN
IsInf(v) == v[2] = 0 /\ v[1] # 0
IsFinite(v) == v[2] > 0

\* IEEE-754 addition, subtraction and multiplication on the model's floats.
FAdd(a, b) ==
    IF IsNaN(a) \/ IsNaN(b) THEN NaN
    ELSE IF IsInf(a) /\ IsInf(b) THEN (IF a = b THEN a ELSE NaN)
    ELSE IF IsInf(a) THEN a
    ELSE IF IsInf(b) THEN b
    ELSE Rat(a[1] * b[2] + b[1] * a[2], a[2] * b[2])

FNeg(a) == <<-a[1], a[2]>>
FSub(a, b) == FAdd(a, FNeg(b))

FMul(a, b) ==
    IF IsNaN(a) \/ IsNaN(b) THEN NaN
    ELSE IF IsInf(a) \/ IsInf(b)
         THEN (IF a[1] = 0 \/ b[1] = 0 THEN NaN
               ELSE <<Sign(a[1]) * Sign(b[1]), 0>>)
    ELSE Rat(a[1] * b[1], a[2] * b[2])

\* a / k for a count k >= 1
FDivInt(a, k) == IF IsFinite(a) THEN Rat(a[1], a[2] * k) ELSE a

RECURSIVE FSum(_)
FSum(s) == IF s = <<>> THEN FromInt(0) ELSE FAdd(Head(s), FSum(Tail(s)))

\* Series.fillna(x) on one value
FillNa(v, x) == IF IsNaN(v) THEN x ELSE v

\* Series.replace([np.inf, -np.inf], np.nan) on one value
ReplaceInf(v) == IF IsInf(v) THEN NaN ELSE v

\* Series.mean(): NaN values are skipped; NaN when nothing is left.
Mean(s) ==
    LET kept == SelectSeq(s, LAMBDA v : ~IsNaN(v))
    IN  IF kept = <<>> THEN NaN ELSE FDivInt(FSum(kept), Len(kept))

\* -------------------------------------------------------------------- text
DigitChars == <<"0", "1", "2", "3", "4", "5", "6", "7", "8", "9">>
Digit(n) == DigitChars[n + 1]

\* str(n) for an integer n >= 0
RECURSIVE Str(_)
Str(n) == IF n < 10 THEN <<Digit(n)>> ELSE Str(n \div 10) \o <<Digit(n % 10)>>

RECURSIVE Pow10(_)
Pow10(k) == IF k = 0 THEN 1 ELSE 10 * Pow10(k - 1)

\* n/d (n >= 0) rounded to an integer, ties to even (the rounding of the
\* format specifier on an exactly represented value).
RoundHalfEven(n, d) ==
    LET q == n \div d
        r == n % d
    IN  IF 2 * r < d THEN q
        ELSE IF 2 * r > d THEN q + 1
        ELSE IF q % 2 = 0 THEN q ELSE q + 1

RECURSIVE ZeroPad(_, _)
ZeroPad(s, width) == IF Len(s) >= width THEN s ELSE ZeroPad(<<"0">> \o s, width)

\* _format_float
FormatFloat(value) ==
    IF IsNaN(value) THEN <<>>
    ELSE IF value = PosInf THEN <<"i", "n", "f">>
    ELSE IF value = NegInf THEN <<"-", "i", "n", "f">>
    ELSE LET scale == Pow10(Decimals)
             m == RoundHalfEven(Abs(value[1]) * scale, value[2])
         IN  (IF value[1] < 0 THEN <<"-">> ELSE <<>>)
             \o Str(m \div scale) \o <<".">> \o ZeroPad(Str(m % scale), Decimals)

\* --------------------------------------------------------------- CSV files
\* A file is NoFile (the path does not exist) or [cols, rows]: the header
\* names as left by the strip of line 87, and the rows, each a function from
\* the columns to raw cells.  A raw cell is <<"ts", t>> (a date-time, t ticks
\* after the epoch), <<"num", v>> (a number, v a float), <<"text", 0>> (any
\* other text) or <<"empty", 0>>.
NoFile == [cols |-> {"<missing>"}, rows |-> <<>>]
OptionalCols == {"SurvivalRate", "ImmediateReworkRate", "LinesAdded", "FilesTouched"}
AllCols == {"Date"} \cup OptionalCols

NaT == -1

Ts(day, tick) == <<"ts", day * TicksPerDay + tick>>
Num(v) == <<"num", v>>
TextCell == <<"text", 0>>
EmptyCell == <<"empty", 0>>

\* pd.to_datetime(..., errors="coerce", utc=True) on one cell
ToDatetime(cell) == IF cell[1] = "ts" THEN cell[2] ELSE NaT

\* pd.to_numeric(..., errors="coerce") on one cell
ToNumeric(cell) == IF cell[1] = "num" THEN cell[2] ELSE NaN

\* Lines 83-89: the error the load raises, or "" when the file loads.
ReadCsvError(file) ==
    IF file = NoFile THEN "FileNotFoundError"
    ELSE IF "Date" \notin file.cols THEN "ValueError"
    ELSE ""

\* Line 91: the rows with their Date cell parsed.
ParseDates(rows) ==
    [i \in 1..Len(rows) |-> [c \in DOMAIN rows[i] |->
        IF c = "Date" THEN ToDatetime(rows[i][c]) ELSE rows[i][c]]]

Injective(p) == \A i, j \in DOMAIN p : p[i] = p[j] => i = j

\* SortedByDate with na_position="first": the null timestamps lead.
SortedNullsFirst(rows, p) ==
    /\ Injective(p)
    /\ \A i, j \in 1..Len(rows) : i < j =>
          LET a == rows[p[i]]["Date"]
              b == rows[p[j]]["Date"]
          IN  /\ (a # NaT /\ b # NaT) => a <= b
              /\ ~(a # NaT /\ b = NaT)
              /\ (a = NaT /\ b = NaT) => p[i] < p[j]

\* Line 92, df.sort_values("Date"): p is an order sort_values may produce.
\* Ascending, NaT last (na_position="last"), the NaT rows in their original
\* order (they are appended as found); rows with equal timestamps in any
\* order (kind="quicksort" is not stable).
SortedByDate(rows, p) ==
    /\ Injective(p)
    /\ \A i, j \in 1..Len(rows) : i < j =>
          LET a == rows[p[i]]["Date"]
              b == rows[p[j]]["Date"]
          IN  /\ (a # NaT /\ b # NaT) => a <= b
              /\ ~(a = NaT /\ b # NaT)
              /\ (a = NaT /\ b = NaT) => p[i] < p[j]

\* The orders of line 92 (reset_index(drop=True) renumbers the rows).
SortOrders(rows) ==
    {p \in [1..Len(rows) -> 1..Len(rows)] : SortedByDate(rows, p)}

Permute(rows, p) == [i \in 1..Len(rows) |-> rows[p[i]]]

\* Lines 94-96: the optional columns that are present, made numeric.
CoerceNumeric(rows) ==
    [i \in 1..Len(rows) |-> [c \in DOMAIN rows[i] |->
        IF c \in OptionalCols THEN ToNumeric(rows[i][c]) ELSE rows[i][c]]]

\* Line 98 reads df["SurvivalRate"]: a KeyError when the column is absent.
DeriveError(cols) == IF "SurvivalRate" \notin cols THEN "KeyError" ELSE ""

\* QualityIndex without the fillna(0) of the rework rate.
QualityIndexNoFill(s, r) == FMul(s, FSub(FromInt(1), r))

\* Line 104 on one row.
QualityIndex(s, r) == FMul(s, FSub(FromInt(1), FillNa(r, FromInt(0))))

\* Lines 98-104 on one row (cols has SurvivalRate).
DeriveRow(row, cols) ==
    LET s == FillNa(row["SurvivalRate"], FromInt(0))
        r == IF "ImmediateReworkRate" \in cols
             THEN row["ImmediateReworkRate"] ELSE NaN
    IN  [c \in cols \cup {"ImmediateReworkRate", "AI_Quality_Index"} |->
            IF c = "SurvivalRate" THEN s
            ELSE IF c = "ImmediateReworkRate" THEN r
            ELSE IF c = "AI_Quality_Index" THEN QualityIndex(s, r)
            ELSE row[c]]

Derive(rows, cols) == [i \in 1..Len(rows) |-> DeriveRow(rows[i], cols)]

\* ------------------------------------------------- resampling and rolling
Min(S) == CHOOSE x \in S : \A y \in S : x <= y
Max(S) == CHOOSE x \in S : \A y \in S : y <= x

DayOf(t) == t \div TicksPerDay

Column(rows, c) == [i \in 1..Len(rows) |-> rows[i][c]]

Dated(rows) == SelectSeq(rows, LAMBDA r : r["Date"] # NaT)

\* ResampleDays without the days that hold no record.
ResampleDaysNoGaps(rows) ==
    LET days == {DayOf(r["Date"]) : r \in {Dated(rows)[i] : i \in 1..Len(Dated(rows))}}
        Ordered(q) == \A i, j \in 1..Len(q) : i < j => q[i] < q[j]
    IN  CHOOSE q \in [1..Cardinality(days) -> days] : Ordered(q)

\* The index of tmp.resample("1D") (line 108): every UTC calendar day from
\* the day of the first timestamp to the day of the last one.
ResampleDays(rows) ==
    LET days == {DayOf(r["Date"]) : r \in {Dated(rows)[i] : i \in 1..Len(Dated(rows))}}
    IN  [k \in 1..(Max(days) - Min(days) + 1) |-> Min(days) + k - 1]

\* .mean(numeric_only=True) of one column over one day's bin: the mean of the
\* day's values that are not NaN, and NaN for a day without any.
DailyMean(rows, c, day) ==
    Mean(Column(SelectSeq(Dated(rows), LAMBDA r : DayOf(r["Date"]) = day), c))

Daily(rows, c) ==
    LET x == ResampleDays(rows)
    IN  [k \in 1..Len(x) |-> DailyMean(rows, c, x[k])]

\* series.rolling(RollWindow, min_periods=MinPeriods).mean()
Rolling(series) ==
    [k \in 1..Len(series) |->
        LET from == IF k > RollWindow THEN k - RollWindow + 1 ELSE 1
            kept == SelectSeq(SubSeq(series, from, k), LAMBDA v : ~IsNaN(v))
        IN  IF Len(kept) >= MinPeriods THEN FDivInt(FSum(kept), Len(kept)) ELSE NaN]

NoRoll == [present |-> FALSE, x |-> <<>>, daily_sr |-> <<>>, sr |-> <<>>, ir |-> <<>>, qi |-> <<>>]

\* Lines 106-115 (rows: the derived frame).
RollingSeries(rows) ==
    IF \E i \in 1..Len(rows) : rows[i]["Date"] # NaT
    THEN [present |-> TRUE,
          x |-> ResampleDays(rows),
          daily_sr |-> Daily(rows, "SurvivalRate"),
          sr |-> Rolling(Daily(rows, "SurvivalRate")),
          ir |-> Rolling(Daily(rows, "ImmediateReworkRate")),
          qi |-> Rolling(Daily(rows, "AI_Quality_Index"))]
    ELSE NoRoll

\* ------------------------------------------------------------------ charts
\* An image is what was drawn: the title, the per-commit points and the
\* dashed overlay (<<>> without one).  "" is the empty sequence.
DataUri == "data:image/png;base64,"
Empty == <<>>

Points(xs, ys) == [i \in 1..Len(xs) |-> <<xs[i], ys[i]>>]

TimeChart(title, rows, c, roll, overlay) ==
    <<DataUri, title, Points(Column(rows, "Date"), Column(rows, c)),
      IF roll.present THEN Points(roll.x, overlay) ELSE Empty>>

\* Lines 139-148.
ScatterChart(rows, cols) ==
    IF "LinesAdded" \in cols
    THEN <<DataUri, "Churn Correlation: LinesAdded vs SurvivalRate",
           Points(Column(rows, "LinesAdded"), Column(rows, "SurvivalRate")), Empty>>
    ELSE Empty

\* Lines 117-158.
Charts(rows, cols, roll) ==
    [survival |-> TimeChart("Survival Rate over Time", rows, "SurvivalRate", roll, roll.sr),
     immediate |-> TimeChart("Immediate Rework Rate over Time", rows, "ImmediateReworkRate", roll, roll.ir),
     scatter |-> ScatterChart(rows, cols),
     qi |-> TimeChart("AI Quality Index over Time", rows, "AI_Quality_Index", roll, roll.qi)]

\* ------------------------------------------------------ KPIs and the table
\* int(x) of a finite float: truncation toward zero
Trunc(v) == Sign(v[1]) * (Abs(v[1]) \div v[2])

\* Line 162.
OverallSurvival(rows) ==
    IF Len(rows) # 0
    THEN Mean([i \in 1..Len(rows) |-> ReplaceInf(rows[i]["SurvivalRate"])])
    ELSE FromInt(0)

\* Lines 163-166: the derived frame always has the column (line 102 adds it),
\* so the mean of line 164 is the one computed.
OverallRework(rows) ==
    Mean([i \in 1..Len(rows) |-> ReplaceInf(rows[i]["ImmediateReworkRate"])])

\* Line 161.
TotalLines(rows, cols) ==
    IF "LinesAdded" \in cols
    THEN Trunc(FSum([i \in 1..Len(rows) |-> FillNa(rows[i]["LinesAdded"], FromInt(0))]))
    ELSE 0

\* Lines 192-197.
Kpi(rows, cols) ==
    [commits |-> Str(Len(rows)),
     lines |-> Str(TotalLines(rows, cols)),
     survival |-> FormatFloat(OverallSurvival(rows)),
     immediate |-> FormatFloat(OverallRework(rows))]

\* r["Date"].strftime("%Y-%m-%d %H:%M"): the calendar day and the time of day
FormatDate(t) == IF t = NaT THEN Empty ELSE <<Str(DayOf(t)), Str(t % TicksPerDay)>>

\* Lines 171-172: int(r.get(col, 0)), 0 for a NaN or an absent column.
IntCell(row, cols, c) ==
    IF c \in cols /\ ~IsNaN(row[c]) THEN Trunc(row[c]) ELSE 0

\* Lines 169-186: one <tr>, its six cells (html.escape leaves digits, ".",
\* "-", ":" and letters as they are).
TableRow(row, cols) ==
    [date |-> FormatDate(row["Date"]),
     files |-> Str(IntCell(row, cols, "FilesTouched")),
     lines |-> Str(IntCell(row, cols, "LinesAdded")),
     surv |-> FormatFloat(row["SurvivalRate"]),
     immd |-> FormatFloat(row["ImmediateReworkRate"]),
     qi |-> FormatFloat(row["AI_Quality_Index"])]

TableRows(rows, cols) == [i \in 1..Len(rows) |-> TableRow(rows[i], cols)]

\* os.path.basename
RECURSIVE Basename(_)
Basename(path) ==
    IF \E i \in 1..Len(path) : path[i] = "/"
    THEN Basename(Tail(path)) ELSE path

\* Lines 188-199 (rows: the derived frame, cols: the columns of the file).
Payload(label, path, rows, cols, roll) ==
    [label |-> label,
     source |-> Basename(path),
     charts |-> Charts(rows, cols, roll),
     kpi |-> Kpi(rows, cols),
     tableRows |-> TableRows(rows, cols)]

\* ------------------------------------------------- text of build_dashboard
UpperChars == <<"A", "B", "C", "D", "E", "F", "G", "H", "I", "J", "K", "L", "M", "N", "O", "P", "Q", "R", "S", "T", "U", "V", "W", "X", "Y", "Z">>
LowerChars == <<"a", "b", "c", "d", "e", "f", "g", "h", "i", "j", "k", "l", "m", "n", "o", "p", "q", "r", "s", "t", "u", "v", "w", "x", "y", "z">>

\* str.lower() on one character
LowerChar(c) ==
    IF \E k \in 1..Len(UpperChars) : UpperChars[k] = c
    THEN LowerChars[CHOOSE k \in 1..Len(UpperChars) : UpperChars[k] = c]
    ELSE c

Lower(s) == [i \in 1..Len(s) |-> LowerChar(s[i])]

\* [a-z0-9]
IsSlugChar(c) ==
    \/ \E k \in 1..Len(LowerChars) : LowerChars[k] = c
    \/ \E k \in 1..Len(DigitChars) : DigitChars[k] = c

\* re.sub(r"[^a-z0-9]+", "-", s): every run of other characters becomes one "-"
RECURSIVE CollapseRuns(_, _)
CollapseRuns(s, inRun) ==
    IF s = <<>> THEN <<>>
    ELSE IF IsSlugChar(Head(s)) THEN <<Head(s)>> \o CollapseRuns(Tail(s), FALSE)
    ELSE IF inRun THEN CollapseRuns(Tail(s), TRUE)
    ELSE <<"-">> \o CollapseRuns(Tail(s), TRUE)

RECURSIVE LStrip(_, _)
LStrip(s, chars) ==
    IF s # <<>> /\ Head(s) \in chars THEN LStrip(Tail(s), chars) ELSE s

RECURSIVE RStrip(_, _)
RStrip(s, chars) ==
    IF s # <<>> /\ s[Len(s)] \in chars THEN RStrip(SubSeq(s, 1, Len(s) - 1), chars) ELSE s

\* str.strip(chars)
StripChars(s, chars) == RStrip(LStrip(s, chars), chars)

\* str.strip()
Whitespace == {" "}
Strip(s) == StripChars(s, Whitespace)

RepoText == <<"r", "e", "p", "o">>

\* _slugify
Slugify(value) ==
    LET slug == StripChars(CollapseRuns(Lower(value), FALSE), {"-"})
    IN  IF slug = <<>> THEN RepoText ELSE slug

\* f"{candidate}-{index}"
Suffixed(candidate, index) == candidate \o <<"-">> \o Str(index)

\* The while loop of lines 47-48.
RECURSIVE FreeIndex(_, _, _)
FreeIndex(candidate, used, index) ==
    IF Suffixed(candidate, index) \in used
    THEN FreeIndex(candidate, used, index + 1) ELSE index

\* UniqueId without the while loop: the first suffix is taken unprobed.
UniqueIdCounting(base, used, seed) ==
    LET candidate == IF base # <<>> THEN base ELSE Suffixed(RepoText, seed)
    IN  IF candidate \notin used THEN candidate
        ELSE Suffixed(candidate, FirstSuffix)

\* UniqueId with the probe started at seed, the position in the list.
UniqueIdBySeed(base, used, seed) ==
    LET candidate == IF base # <<>> THEN base ELSE Suffixed(RepoText, seed)
    IN  IF candidate \notin used THEN candidate
        ELSE Suffixed(candidate, FreeIndex(candidate, used, seed))

\* _unique_id: the id returned (the caller's set gains it).
UniqueId(base, used, seed) ==
    LET candidate == IF base # <<>> THEN base ELSE Suffixed(RepoText, seed)
    IN  IF candidate \notin used THEN candidate
        ELSE Suffixed(candidate, FreeIndex(candidate, used, FirstSuffix))

\* html.escape on one character
EscapeChar(c) ==
    CASE c = "&" -> <<"&", "a", "m", "p", ";">>
      [] c = "<" -> <<"&", "l", "t", ";">>
      [] c = ">" -> <<"&", "g", "t", ";">>
      [] c = "\"" -> <<"&", "q", "u", "o", "t", ";">>
      [] c = "'" -> <<"&", "#", "x", "2", "7", ";">>
      [] OTHER -> <<c>>

\* html.escape
RECURSIVE HtmlEscape(_)
HtmlEscape(s) == IF s = <<>> THEN <<>> ELSE EscapeChar(Head(s)) \o HtmlEscape(Tail(s))

EscapedChars == {"&", "<", ">", "\"", "'"}

StartsWith(s, prefix) ==
    Len(s) >= Len(prefix) /\ SubSeq(s, 1, Len(prefix)) = prefix

\* The text a browser shows for escaped markup: the character references
\* html.escape writes are decoded.
RECURSIVE HtmlText(_)
HtmlText(s) ==
    IF s = <<>> THEN <<>>
    ELSE IF \E c \in EscapedChars : StartsWith(s, EscapeChar(c))
    THEN LET c == CHOOSE c \in EscapedChars : StartsWith(s, EscapeChar(c))
         IN  <<c>> \o HtmlText(SubSeq(s, Len(EscapeChar(c)) + 1, Len(s)))
    ELSE <<Head(s)>> \o HtmlText(Tail(s))

\* os.path.splitext(name)[0] of a base name: up to its last ".", unless that
\* "." only follows leading dots
SplitextRoot(name) ==
    LET dots == {i \in 1..Len(name) : name[i] = "."}
        last == Max(dots)
    IN  IF dots = {} \/ \A i \in 1..(last - 1) : name[i] = "."
        THEN name ELSE SubSeq(name, 1, last - 1)

DefaultName == <<"a", "i", "_", "a", "c", "c", "e", "p", "t", "a", "n", "c", "e", "_", "m", "e", "t", "r", "i", "c", "s">>

\* ---------------------------------------------------------- Python's dict
\* A dict is the sequence of its items <<key, value>> in insertion order.
DictKeys(d) == {d[i][1] : i \in 1..Len(d)}
DictGet(d, k) == d[CHOOSE i \in 1..Len(d) : d[i][1] = k][2]

\* d[k] = v
DictSet(d, k, v) ==
    IF k \in DictKeys(d)
    THEN [i \in 1..Len(d) |-> IF d[i][1] = k THEN <<k, v>> ELSE d[i]]
    ELSE Append(d, <<k, v>>)

\* =================================================================== state
VARIABLES
    file,       \* _prepare_dataset: the CSV at csv_path (NoFile: no such path)
    stage,      \* _prepare_dataset: where the call is
    df,         \* _prepare_dataset: the data frame
    roll,       \* _prepare_dataset: x_roll, roll_sr, roll_ir, roll_qi
    payload,    \* _prepare_dataset: the returned dict
    err,        \* _prepare_dataset: the exception raised ("" for none)
    args,            \* build_dashboard: csv_path and datasets
    bpc,             \* build_dashboard: where the run is
    dataset_specs,   \* build_dashboard: the (label, path) pairs
    idx,             \* build_dashboard: the loop's idx
    repo_payloads,   \* build_dashboard: the dict id -> payload
    option_tags,     \* build_dashboard: the <option> tags
    used_ids,        \* build_dashboard: the ids in use
    default_repo_id, \* build_dashboard: the id displayed first (None: <<>>)
    berr,            \* build_dashboard: the exception raised ("" for none)
    out_file,        \* the file at html_out: <<>> (absent) or <<document>>
    dom              \* the report opened in a browser

pvars == <<file, stage, df, roll, payload, err>>
bvars == <<args, bpc, dataset_specs, idx, repo_payloads, option_tags, used_ids,
           default_repo_id, berr, out_file, dom>>
vars == <<pvars, bvars>>

NoPayload == <<>>
None == <<>>
NoArgs == [csv_path |-> <<>>, datasets |-> <<>>]
Closed == [open |-> FALSE]

\* ------------------------------------------------------------- the inputs
PrepLabel == <<"R">>
PrepPath == <<"d", "/", "a">>

Half == Rat(1, 2)

DateCells == {TextCell, Ts(0, 0), Ts(0, 1), Ts(1, 0), Ts(RollWindow + 1, 0)}
SurvivalCells == {EmptyCell, Num(FromInt(0)), Num(Half), Num(PosInf)}
ReworkCells == {EmptyCell, Num(Half), Num(FromInt(1)), Num(PosInf)}
CountCells == {EmptyCell, TextCell, Num(FromInt(2)), Num(Rat(5, 2))}

\* Rows that differ in their timestamps.
DateRows ==
    {[c \in AllCols |->
        CASE c = "Date" -> d
          [] c = "SurvivalRate" -> Num(FromInt(s))
          [] c = "ImmediateReworkRate" -> Num(Half)
          [] c = "LinesAdded" -> Num(FromInt(2))
          [] OTHER -> Num(FromInt(1))] : d \in DateCells, s \in {0, 1}}

\* Rows that differ in their rates.
RateRows ==
    {[c \in AllCols |->
        CASE c = "Date" -> Ts(0, 0)
          [] c = "SurvivalRate" -> s
          [] c = "ImmediateReworkRate" -> r
          [] c = "LinesAdded" -> Num(FromInt(3))
          [] OTHER -> EmptyCell] : s \in SurvivalCells, r \in ReworkCells}

\* Rows that differ in their counts.
CountRows ==
    {[c \in AllCols |->
        CASE c = "Date" -> Ts(0, 0)
          [] c = "SurvivalRate" -> Num(FromInt(1))
          [] c = "ImmediateReworkRate" -> Num(FromInt(0))
          [] c = "LinesAdded" -> l
          [] OTHER -> f] : l \in CountCells, f \in {EmptyCell, Num(FromInt(1))}}

SeqsUpTo(S, n) == UNION {[1..k -> S] : k \in 0..n}

Project(rows, cols) == [i \in 1..Len(rows) |-> [c \in cols |-> rows[i][c]]]

CsvFiles(colsets, bodies) ==
    {[cols |-> cols, rows |-> Project(b, cols)] : cols \in colsets, b \in bodies}

\* The files _prepare_dataset is given: no file; rows of different timestamps
\* with and without the optional columns next to SurvivalRate; rows of
\* different rates with and without each rate column; rows of different
\* counts under every set of columns.
Files ==
    {NoFile}
    \cup CsvFiles({AllCols, {"Date", "SurvivalRate"}}, SeqsUpTo(DateRows, MaxRows))
    \cup CsvFiles({AllCols, AllCols \ {"ImmediateReworkRate"}, AllCols \ {"SurvivalRate"}},
                  SeqsUpTo(RateRows, MaxRows - 1))
    \cup CsvFiles(SUBSET AllCols, SeqsUpTo(CountRows, MaxRows - 1))

\* ------------------------------------------------------- _prepare_dataset
PrepInit ==
    /\ file \in Files
    /\ stage = "start"
    /\ df = <<>>
    /\ roll = NoRoll
    /\ payload = NoPayload
    /\ err = ""
    /\ args = NoArgs /\ bpc = "idle" /\ dataset_specs = <<>> /\ idx = 1
    /\ repo_payloads = <<>> /\ option_tags = <<>> /\ used_ids = {}
    /\ default_repo_id = None /\ berr = "" /\ out_file = <<>> /\ dom = Closed

\* Lines 83-91.
Load ==
    /\ stage = "start"
    /\ err' = ReadCsvError(file)
    /\ IF ReadCsvError(file) = ""
       THEN stage' = "parsed" /\ df' = ParseDates(file.rows)
       ELSE stage' = "failed" /\ df' = df
    /\ UNCHANGED <<file, roll, payload>>
    /\ UNCHANGED bvars

\* Line 92.
Sort ==
    /\ stage = "parsed"
    /\ \E p \in SortOrders(df) : df' = Permute(df, p)
    /\ stage' = "sorted"
    /\ UNCHANGED <<file, roll, payload, err>>
    /\ UNCHANGED bvars

\* Lines 94-104.
DeriveStep ==
    /\ stage = "sorted"
    /\ err' = DeriveError(file.cols)
    /\ IF DeriveError(file.cols) = ""
       THEN stage' = "derived" /\ df' = Derive(CoerceNumeric(df), file.cols)
       ELSE stage' = "failed" /\ df' = df
    /\ UNCHANGED <<file, roll, payload>>
    /\ UNCHANGED bvars

\* Lines 106-115.
RollStep ==
    /\ stage = "derived"
    /\ roll' = RollingSeries(df)
    /\ stage' = "rolled"
    /\ UNCHANGED <<file, df, payload, err>>
    /\ UNCHANGED bvars

\* Lines 117-199.
Finish ==
    /\ stage = "rolled"
    /\ payload' = Payload(PrepLabel, PrepPath, df, file.cols, roll)
    /\ stage' = "done"
    /\ UNCHANGED <<file, df, roll, err>>
    /\ UNCHANGED bvars

PrepNext == Load \/ Sort \/ DeriveStep \/ RollStep \/ Finish

SpecPrepare == PrepInit /\ [][PrepNext]_vars

\* ========================================================== build_dashboard
\* The files of the run's file system.
PathA == <<"d", "/", "r", ".", "c">>
PathB == <<"b">>
PathC == <<"c">>
PathE == <<"e">>
PathX == <<"x">>

FileA == [cols |-> AllCols,
          rows |-> <<[c \in AllCols |->
                        CASE c = "Date" -> TextCell
                          [] c = "SurvivalRate" -> Num(FromInt(1))
                          [] c = "ImmediateReworkRate" -> EmptyCell
                          [] c = "LinesAdded" -> Num(FromInt(2))
                          [] OTHER -> Num(FromInt(1))],
                     [c \in AllCols |->
                        CASE c = "Date" -> Ts(0, 1)
                          [] c = "SurvivalRate" -> Num(Half)
                          [] c = "ImmediateReworkRate" -> Num(Half)
                          [] c = "LinesAdded" -> Num(FromInt(3))
                          [] OTHER -> EmptyCell]>>]
FileB == [cols |-> {"Date", "SurvivalRate"},
          rows |-> <<[c \in {"Date", "SurvivalRate"} |->
                        IF c = "Date" THEN Ts(1, 0) ELSE Num(FromInt(1))]>>]
FileC == [cols |-> {"SurvivalRate"}, rows |-> <<>>]
FileE == [cols |-> {"Date"}, rows |-> <<>>]

\* os.path.exists and pd.read_csv on a path
FileAt(path) ==
    CASE path = PathA -> FileA
      [] path = PathB -> FileB
      [] path = PathC -> FileC
      [] path = PathE -> FileE
      [] OTHER -> NoFile

\* _prepare_dataset(label, csv_path): every outcome of the call, an exception
\* or a payload (one per order the sort may leave the rows in).
PrepareResults(label, path) ==
    LET f == FileAt(path)
    IN  IF ReadCsvError(f) # "" THEN {[err |-> ReadCsvError(f), payload |-> NoPayload]}
        ELSE IF DeriveError(f.cols) # "" THEN {[err |-> DeriveError(f.cols), payload |-> NoPayload]}
        ELSE {LET rows == Derive(CoerceNumeric(Permute(ParseDates(f.rows), p)), f.cols)
              IN  [err |-> "",
                   payload |-> Payload(label, path, rows, f.cols, RollingSeries(rows))] :
                 p \in SortOrders(ParseDates(f.rows))}

\* An item of --dataset: eq says whether it holds a "=", left and right are
\* the texts before and after the first one.
ItemBad(item) ==
    \/ ~item.eq
    \/ Strip(item.left) = <<>>
    \/ Strip(item.right) = <<>>

\* NormalizeError with only the first item validated.
NormalizeErrorFirstOnly(default_csv, datasets) ==
    IF datasets # <<>> /\ ItemBad(datasets[1]) THEN "ValueError" ELSE ""

\* _normalize_dataset_specs: the exception raised, or "".
NormalizeError(default_csv, datasets) ==
    IF datasets # <<>> /\ \E i \in 1..Len(datasets) : ItemBad(datasets[i])
    THEN "ValueError" ELSE ""

\* _normalize_dataset_specs: the list returned when nothing is raised.
NormalizeDatasetSpecs(default_csv, datasets) ==
    IF datasets # <<>>
    THEN [i \in 1..Len(datasets) |-> <<Strip(datasets[i].left), Strip(datasets[i].right)>>]
    ELSE LET root == SplitextRoot(Basename(default_csv))
         IN  <<<<IF root # <<>> THEN root ELSE DefaultName, default_csv>>>>

WithId(p, id) ==
    [label |-> p.label, source |-> p.source, charts |-> p.charts, kpi |-> p.kpi,
     tableRows |-> p.tableRows, id |-> id]

Hidden == " hidden"
HiddenAttr == " class=\"hidden\""

\* InitialId as the last key of the dict.
LastId(payloads, default_id) == payloads[Len(payloads)][1]

\* Line 222: the key whose payload is rendered statically.
InitialId(payloads, default_id) == default_id

\* Line 219.
SelectedAttr(repo_id, default_id) == repo_id = default_id

\* Lines 231-232.
ScatterClasses(scatter_src) ==
    [img |-> IF scatter_src # Empty THEN "" ELSE Hidden,
     empty |-> IF scatter_src # Empty THEN HiddenAttr ELSE ""]

\* Lines 222-232 and 431-448: the values substituted into the template.  The
\* embedded map is the dict: json.dumps writes it and the script reads it back.
Document(payloads, tags, default_id) ==
    LET initial == DictGet(payloads, InitialId(payloads, default_id))
        scatter_src == initial.charts.scatter
    IN  [initial_repo_label |-> HtmlEscape(initial.label),
         initial_repo_source |-> HtmlEscape(initial.source),
         options_html |-> tags,
         initial_kpi |-> initial.kpi,
         chart_survival |-> initial.charts.survival,
         chart_immediate |-> initial.charts.immediate,
         chart_scatter |-> scatter_src,
         scatter_img_extra_class |-> ScatterClasses(scatter_src).img,
         scatter_empty_class_attr |-> ScatterClasses(scatter_src).empty,
         chart_qi |-> initial.charts.qi,
         initial_table_rows |-> initial.tableRows,
         repo_data_json |-> payloads,
         default_repo_id |-> default_id]

\* The inputs of a run: well-formed items naming loadable files, well-formed
\* items naming files that cannot be prepared, and malformed items.
Labels == {<<" ", "R">>, <<"r">>, <<"r", " ", "2">>, <<"&">>}
GoodItems ==
    {[eq |-> TRUE, left |-> <<" ", "R">>, right |-> PathA],
     [eq |-> TRUE, left |-> <<"r">>, right |-> PathA],
     [eq |-> TRUE, left |-> <<"r">>, right |-> <<" ">> \o PathB],
     [eq |-> TRUE, left |-> <<"r", " ", "2">>, right |-> PathB],
     [eq |-> TRUE, left |-> <<"&">>, right |-> PathB]}
Items ==
    GoodItems
    \cup {[eq |-> TRUE, left |-> <<"r">>, right |-> q] : q \in {PathC, PathE, PathX, <<" ">>}}
    \cup {[eq |-> TRUE, left |-> <<" ">>, right |-> PathB],
          [eq |-> FALSE, left |-> <<"r">>, right |-> <<>>]}
CsvPaths == {PathA, PathB, PathX}

BuildInit ==
    /\ \/ args \in {[csv_path |-> q, datasets |-> <<>>] : q \in CsvPaths}
       \/ args \in {[csv_path |-> PathA, datasets |-> d] :
                       d \in SeqsUpTo(Items, MaxDatasets) \ {<<>>}}
    /\ bpc = "start"
    /\ dataset_specs = <<>> /\ idx = 1
    /\ repo_payloads = <<>> /\ option_tags = <<>> /\ used_ids = {}
    /\ default_repo_id = None /\ berr = "" /\ out_file = <<>> /\ dom = Closed
    /\ file = NoFile /\ stage = "idle" /\ df = <<>> /\ roll = NoRoll
    /\ payload = NoPayload /\ err = ""

\* Lines 203-210.
Normalize ==
    /\ bpc = "start"
    /\ berr' = NormalizeError(args.csv_path, args.datasets)
    /\ IF NormalizeError(args.csv_path, args.datasets) = ""
       THEN /\ dataset_specs' = NormalizeDatasetSpecs(args.csv_path, args.datasets)
            /\ bpc' = "loop"
       ELSE /\ dataset_specs' = dataset_specs
            /\ bpc' = "failed"
    /\ UNCHANGED <<args, idx, repo_payloads, option_tags, used_ids, default_repo_id,
                   out_file, dom>>
    /\ UNCHANGED pvars

\* Lines 212-220: one turn of the loop.
LoopStep ==
    /\ bpc = "loop"
    /\ idx <= Len(dataset_specs)
    /\ LET label == dataset_specs[idx][1]
           path == dataset_specs[idx][2]
       IN  \E res \in PrepareResults(label, path) :
             IF res.err # ""
             THEN /\ berr' = res.err
                  /\ bpc' = "failed"
                  /\ UNCHANGED <<idx, repo_payloads, option_tags, used_ids, default_repo_id>>
             ELSE LET repo_id == UniqueId(Slugify(label), used_ids, idx)
                      first == IF default_repo_id = None THEN repo_id ELSE default_repo_id
                  IN  /\ used_ids' = used_ids \cup {repo_id}
                      /\ repo_payloads' = DictSet(repo_payloads, repo_id, WithId(res.payload, repo_id))
                      /\ default_repo_id' = first
                      /\ option_tags' = Append(option_tags,
                            [value |-> repo_id, selected |-> SelectedAttr(repo_id, first),
                             text |-> HtmlEscape(label)])
                      /\ idx' = idx + 1
                      /\ UNCHANGED <<berr, bpc>>
    /\ UNCHANGED <<args, dataset_specs, out_file, dom>>
    /\ UNCHANGED pvars

\* Lines 222-452: the document is assembled and written to html_out.
WriteReport ==
    /\ bpc = "loop"
    /\ idx > Len(dataset_specs)
    /\ out_file' = <<Document(repo_payloads, option_tags, default_repo_id)>>
    /\ bpc' = "written"
    /\ UNCHANGED <<args, dataset_specs, idx, repo_payloads, option_tags, used_ids,
                   default_repo_id, berr, dom>>
    /\ UNCHANGED pvars

\* ------------------------------------------------------- the opened report
\* The option a browser selects: the last one marked selected, or the first.
InitialOption(tags) ==
    LET marked == {i \in 1..Len(tags) : tags[i].selected}
    IN  IF marked = {} THEN tags[1].value ELSE tags[Max(marked)].value

\* RenderRepo without line 407: the scatter image is shown again and the
\* fallback message stays.
RenderRepoMessageKept(d, data_map, repoId) ==
    IF repoId \notin DictKeys(data_map) THEN d
    ELSE LET data == DictGet(data_map, repoId)
         IN  [d EXCEPT !.repoName = data.label, !.repoSource = data.source,
                       !.kpi = data.kpi,
                       !.chartSurvival = data.charts.survival,
                       !.chartImmediate = data.charts.immediate,
                       !.chartQi = data.charts.qi,
                       !.scatterSrc = IF data.charts.scatter # Empty
                                      THEN data.charts.scatter ELSE @,
                       !.scatterImgHidden = data.charts.scatter = Empty,
                       !.scatterEmptyHidden = IF data.charts.scatter # Empty THEN @ ELSE FALSE,
                       !.tableBody = data.tableRows,
                       !.shown = repoId]

\* renderRepo (lines 390-413) on the document d.  shown records the id last
\* rendered.
RenderRepo(d, data_map, repoId) ==
    IF repoId \notin DictKeys(data_map) THEN d
    ELSE LET data == DictGet(data_map, repoId)
         IN  [d EXCEPT !.repoName = data.label, !.repoSource = data.source,
                       !.kpi = data.kpi,
                       !.chartSurvival = data.charts.survival,
                       !.chartImmediate = data.charts.immediate,
                       !.chartQi = data.charts.qi,
                       !.scatterSrc = IF data.charts.scatter # Empty
                                      THEN data.charts.scatter ELSE @,
                       !.scatterImgHidden = data.charts.scatter = Empty,
                       !.scatterEmptyHidden = data.charts.scatter # Empty,
                       !.tableBody = data.tableRows,
                       !.shown = repoId]

\* The written file is opened: the markup of lines 266-336 is parsed.
OpenReport ==
    /\ bpc = "written"
    /\ ~dom.open
    /\ LET h == out_file[1]
       IN  dom' = [open |-> TRUE, scripted |-> FALSE,
                   repoName |-> HtmlText(h.initial_repo_label),
                   repoSource |-> HtmlText(h.initial_repo_source),
                   selectValue |-> InitialOption(h.options_html),
                   kpi |-> h.initial_kpi,
                   chartSurvival |-> h.chart_survival,
                   chartImmediate |-> h.chart_immediate,
                   chartQi |-> h.chart_qi,
                   scatterSrc |-> h.chart_scatter,
                   scatterImgHidden |-> h.scatter_img_extra_class = Hidden,
                   scatterEmptyHidden |-> h.scatter_empty_class_attr = HiddenAttr,
                   tableBody |-> h.initial_table_rows,
                   shown |-> h.default_repo_id]
    /\ UNCHANGED <<args, bpc, dataset_specs, idx, repo_payloads, option_tags, used_ids,
                   default_repo_id, berr, out_file>>
    /\ UNCHANGED pvars

\* Lines 339-425: the script runs; its last statements select and render
\* DEFAULT_REPO.
RunScript ==
    /\ dom.open /\ ~dom.scripted
    /\ LET h == out_file[1]
       IN  dom' = IF h.default_repo_id \in DictKeys(h.repo_data_json)
                  THEN [RenderRepo(dom, h.repo_data_json, h.default_repo_id)
                           EXCEPT !.scripted = TRUE, !.selectValue = h.default_repo_id]
                  ELSE [dom EXCEPT !.scripted = TRUE]
    /\ UNCHANGED <<args, bpc, dataset_specs, idx, repo_payloads, option_tags, used_ids,
                   default_repo_id, berr, out_file>>
    /\ UNCHANGED pvars

\* The reader picks an option of the selector.
ChooseOption ==
    /\ dom.open /\ dom.scripted
    /\ \E k \in 1..Len(out_file[1].options_html) :
          dom' = [dom EXCEPT !.selectValue = out_file[1].options_html[k].value]
    /\ UNCHANGED <<args, bpc, dataset_specs, idx, repo_payloads, option_tags, used_ids,
                   default_repo_id, berr, out_file>>
    /\ UNCHANGED pvars

\* Line 414: a click on "Load metrics".
ClickApply ==
    /\ dom.open /\ dom.scripted
    /\ dom' = RenderRepo(dom, out_file[1].repo_data_json, dom.selectValue)
    /\ UNCHANGED <<args, bpc, dataset_specs, idx, repo_payloads, option_tags, used_ids,
                   default_repo_id, berr, out_file>>
    /\ UNCHANGED pvars

\* Lines 415-420: Enter pressed in the selector.
PressEnter ==
    /\ dom.open /\ dom.scripted
    /\ dom' = RenderRepo(dom, out_file[1].repo_data_json, dom.selectValue)
    /\ UNCHANGED <<args, bpc, dataset_specs, idx, repo_payloads, option_tags, used_ids,
                   default_repo_id, berr, out_file>>
    /\ UNCHANGED pvars

Init == BuildInit

Next ==
    \/ Normalize
    \/ LoopStep
    \/ WriteReport
    \/ OpenReport
    \/ RunScript
    \/ ChooseOption
    \/ ClickApply
    \/ PressEnter

Spec == Init /\ [][Next]_vars

\* ==================================================== claims, build_dashboard
Processed == idx - 1
Ids == [k \in 1..Len(option_tags) |-> option_tags[k].value]
Slugs == [k \in 1..Len(dataset_specs) |-> Slugify(dataset_specs[k][1])]
Looping == bpc \in {"loop", "written"}
Written == bpc = "written"

\* C1: the ids given to the datasets are pairwise distinct, the map holds one
\* entry per dataset and each entry is still the payload of its own dataset.
C1_IdsDistinct ==
    Looping =>
        /\ Len(Ids) = Processed
        /\ \A i, j \in 1..Len(Ids) : i # j => Ids[i] # Ids[j]
        /\ Len(repo_payloads) = Processed
        /\ \A k \in 1..Processed :
              /\ Ids[k] \in DictKeys(repo_payloads)
              /\ DictGet(repo_payloads, Ids[k]).label = dataset_specs[k][1]
              /\ DictGet(repo_payloads, Ids[k]).source = Basename(dataset_specs[k][2])
        /\ Written => Len(out_file[1].repo_data_json) = Len(dataset_specs)

\* C1's case: three datasets written, two labels with the same slug after a
\* label whose slug is that slug with the suffix -2.
C1_Witness ==
    /\ Written
    /\ Len(dataset_specs) = 3
    /\ Slugs[1] = Suffixed(Slugs[2], 2)
    /\ Slugs[2] = Slugs[3]

\* The number of the first k labels whose slug is that of the k-th.
Occurrence(k) == Cardinality({j \in 1..k : Slugs[j] = Slugs[k]})

\* What C2 says of the k-th id.
C2_CountedId(k) ==
    IF Occurrence(k) = 1 THEN Slugs[k] ELSE Suffixed(Slugs[k], Occurrence(k))

\* C2 (as claimed): the n-th dataset of a slug s receives s (n = 1) or s-n,
\* whatever other labels the list holds.
C2_SuffixIsOccurrence ==
    Looping => \A k \in 1..Processed : Ids[k] = C2_CountedId(k)

\* No slug of the list is another slug of the list followed by -k, k >= 2.
C2_NoSuffixedSlug ==
    \A i, j \in 1..Len(Slugs) : \A n \in FirstSuffix..(Len(Slugs) + 1) :
        Slugs[i] # Suffixed(Slugs[j], n)

\* C2 (amended): a dataset receives its slug s when s is not yet an id in use,
\* and otherwise s-k for the smallest k >= 2 with s-k not in use; when no slug
\* of the list is another one followed by such a suffix, the n-th dataset of
\* a slug receives s (n = 1) or s-n.
C2_SuffixIsSmallestFree ==
    Looping =>
        /\ \A k \in 1..Processed :
              LET before == {Ids[j] : j \in 1..(k - 1)}
                  s == Slugs[k]
              IN  IF s \notin before THEN Ids[k] = s
                  ELSE \E n \in FirstSuffix..(k + 1) :
                          /\ Ids[k] = Suffixed(s, n)
                          /\ \A m \in FirstSuffix..(n - 1) : Suffixed(s, m) \in before
        /\ C2_NoSuffixedSlug => \A k \in 1..Processed : Ids[k] = C2_CountedId(k)

\* C2's case: three datasets of one slug, given s, s-2 and s-3.
C2_Witness ==
    /\ Written
    /\ Len(dataset_specs) = 3
    /\ Slugs[1] = Slugs[2] /\ Slugs[2] = Slugs[3]
    /\ Ids = <<Slugs[1], Suffixed(Slugs[1], 2), Suffixed(Slugs[1], 3)>>

\* The k-th requested dataset cannot be loaded: no file, or no Date column.
C3_Unloadable(q) == FileAt(q) = NoFile \/ "Date" \notin FileAt(q).cols

\* Some specification is malformed, or some requested CSV cannot be loaded.
C3_BadInput ==
    \/ \E i \in 1..Len(args.datasets) : ItemBad(args.datasets[i])
    \/ /\ args.datasets = <<>>
       /\ C3_Unloadable(args.csv_path)
    \/ \E i \in 1..Len(args.datasets) : C3_Unloadable(Strip(args.datasets[i].right))

Requested == IF args.datasets = <<>> THEN 1 ELSE Len(args.datasets)

\* C3: with a bad input the run never gets past the loop to the write and
\* fails without a file; a file that is written holds every requested dataset.
C3_NoPartialReport ==
    /\ C3_BadInput => bpc \in {"start", "loop", "failed"}
    /\ bpc = "failed" => berr # "" /\ out_file = <<>>
    /\ bpc \in {"start", "loop"} => out_file = <<>>
    /\ (bpc = "loop" /\ idx > Len(dataset_specs)) => ~C3_BadInput
    /\ out_file # <<>> =>
          /\ ~C3_BadInput
          /\ berr = ""
          /\ Len(out_file[1].repo_data_json) = Requested
          /\ \A k \in 1..Requested :
                \E e \in 1..Len(out_file[1].repo_data_json) :
                    /\ out_file[1].repo_data_json[e][2].label = dataset_specs[k][1]
                    /\ out_file[1].repo_data_json[e][2].source = Basename(dataset_specs[k][2])

\* C3's case: a run of three specifications failed on the last one (a file
\* without a Date column) after loading two datasets, and wrote nothing.
C3_Witness ==
    /\ bpc = "failed"
    /\ Len(dataset_specs) = 3
    /\ Len(repo_payloads) = 2
    /\ berr = "ValueError"
    /\ out_file = <<>>

\* C4: the written document displays the first specification's dataset: its
\* id is DEFAULT_REPO, its label, source, KPIs, charts and rows are rendered
\* statically, and its option alone is marked selected.
C4_FirstIsDefault ==
    Written =>
        LET h == out_file[1]
        IN  /\ h.default_repo_id = Ids[1]
            /\ h.default_repo_id \in DictKeys(h.repo_data_json)
            /\ DictGet(h.repo_data_json, h.default_repo_id).id = h.default_repo_id
            /\ \E r \in PrepareResults(dataset_specs[1][1], dataset_specs[1][2]) :
                  /\ r.err = ""
                  /\ h.initial_repo_label = HtmlEscape(dataset_specs[1][1])
                  /\ h.initial_repo_source = HtmlEscape(r.payload.source)
                  /\ h.initial_kpi = r.payload.kpi
                  /\ h.chart_survival = r.payload.charts.survival
                  /\ h.chart_immediate = r.payload.charts.immediate
                  /\ h.chart_scatter = r.payload.charts.scatter
                  /\ h.chart_qi = r.payload.charts.qi
                  /\ h.initial_table_rows = r.payload.tableRows
            /\ {k \in 1..Len(h.options_html) : h.options_html[k].selected} = {1}
            /\ (dom.open /\ ~dom.scripted) =>
                  /\ dom.selectValue = Ids[1]
                  /\ dom.repoName = dataset_specs[1][1]

\* C4's case: a written document of three datasets with different files, the
\* first of another file than the last.
C4_Witness ==
    /\ Written
    /\ dom.open
    /\ Len(dataset_specs) = 3
    /\ dataset_specs[1][2] # dataset_specs[3][2]
    /\ dataset_specs[1][1] # dataset_specs[3][1]

\* The position of the displayed dataset in the list.
ShownAt == CHOOSE k \in 1..Len(Ids) : Ids[k] = dom.shown
ShownLacksLines == "LinesAdded" \notin FileAt(dataset_specs[ShownAt][2]).cols

\* C9: in the opened document, before and after any switch, the scatter image
\* is hidden and the fallback message visible exactly when the displayed
\* dataset's file had no LinesAdded column; otherwise the image shows that
\* dataset's scatter chart and the message is hidden.
C9_ScatterFallback ==
    dom.open =>
        LET data == DictGet(out_file[1].repo_data_json, dom.shown)
        IN  /\ ShownLacksLines <=> data.charts.scatter = Empty
            /\ IF ShownLacksLines
               THEN dom.scatterImgHidden /\ ~dom.scatterEmptyHidden
               ELSE /\ ~dom.scatterImgHidden
                    /\ dom.scatterEmptyHidden
                    /\ dom.scatterSrc = data.charts.scatter

\* C9's case: the first dataset has no LinesAdded column and the reader has
\* switched to one that has.
C9_Witness ==
    /\ dom.open /\ dom.scripted
    /\ "LinesAdded" \notin FileAt(dataset_specs[1][2]).cols
    /\ ~ShownLacksLines
    /\ ~dom.scatterImgHidden

\* ================================================== claims, _prepare_dataset
Parsed == ParseDates(file.rows)
Perms(n) == {p \in [1..n -> 1..n] : Injective(p)}
Loaded == file # NoFile /\ "Date" \in file.cols
HasDerived == stage \in {"derived", "rolled", "done"}

\* C5 (as claimed): a file with every column and zero rows is prepared without
\* error, and its KPIs are commits "0", lines "0" and two empty means.
C5_EmptyDatasetKpis ==
    (file # NoFile /\ file.cols = AllCols /\ file.rows = <<>>) =>
        /\ err = ""
        /\ stage = "done" =>
              payload.kpi = [commits |-> <<"0">>, lines |-> <<"0">>,
                             survival |-> Empty, immediate |-> Empty]

\* C6 (as claimed): with a Date column, whatever optional columns are absent,
\* no error is raised and the payload uses the fallbacks: survival 0.0 and
\* rework undefined in every row, files and lines 0 in the table, total
\* lines 0.
C6_OptionalColumnsTolerated ==
    Loaded =>
        /\ err = ""
        /\ stage = "done" =>
              /\ "LinesAdded" \notin file.cols => payload.kpi.lines = <<"0">>
              /\ \A i \in 1..Len(payload.tableRows) :
                    LET row == payload.tableRows[i]
                    IN  /\ "SurvivalRate" \notin file.cols =>
                              row.surv = <<"0", ".", "0", "0", "0">>
                        /\ "ImmediateReworkRate" \notin file.cols => row.immd = Empty
                        /\ "LinesAdded" \notin file.cols => row.lines = <<"0">>
                        /\ "FilesTouched" \notin file.cols => row.files = <<"0">>

\* p lists the input rows in a claimed order: timestamps non-decreasing, every
\* null timestamp after every parseable one, null rows in their input order.
C7_Ordered(rows, p) ==
    \A i, j \in 1..Len(rows) : i < j =>
        LET a == rows[p[i]]["Date"]
            b == rows[p[j]]["Date"]
        IN  /\ a = NaT => b = NaT
            /\ (a # NaT /\ b # NaT) => a <= b
            /\ (a = NaT /\ b = NaT) => p[i] < p[j]

\* C7: the records after the sort, and the rows of the table, are the N input
\* rows in such an order.
C7_SortedPermutation ==
    /\ stage = "sorted" =>
          \E p \in Perms(Len(Parsed)) :
              C7_Ordered(Parsed, p) /\ df = Permute(Parsed, p)
    /\ stage = "done" =>
          \E p \in Perms(Len(Parsed)) :
              /\ C7_Ordered(Parsed, p)
              /\ payload.tableRows =
                    TableRows(Derive(CoerceNumeric(Permute(Parsed, p)), file.cols), file.cols)

\* C7's case: three rows, a null-dated row ahead of a dated one in the file,
\* two different null-dated rows, all of them in the table.
C7_Witness ==
    /\ stage = "done"
    /\ Len(file.rows) = 3
    /\ Parsed[1]["Date"] = NaT /\ Parsed[2]["Date"] # NaT /\ Parsed[3]["Date"] = NaT
    /\ Parsed[1] # Parsed[3]
    /\ Len(payload.tableRows) = 3

InUnit(v) == IsFinite(v) /\ 0 <= v[1] /\ v[1] <= v[2]
FiniteOrNaN(v) == IsFinite(v) \/ IsNaN(v)

\* What C8 says of one derived row, given the numeric input cells s0 and r0.
C8_RowOk(row, s0, r0) ==
    LET s == IF IsNaN(s0) THEN FromInt(0) ELSE s0
        r == IF IsNaN(r0) THEN FromInt(0) ELSE r0
        qi == row["AI_Quality_Index"]
    IN  /\ ~IsNaN(qi)
        /\ qi = FMul(s, FSub(FromInt(1), r))
        /\ IsNaN(r0) => qi = s
        /\ IsNaN(s0) => qi = FromInt(0)
        /\ (InUnit(s) /\ InUnit(r)) => InUnit(qi)

InputRate(i, c) == IF c \in file.cols THEN ToNumeric(file.rows[i][c]) ELSE NaN

\* C8 (as claimed): every record's index is defined and is s * (1 - r).
C8_IndexAlwaysDefined ==
    HasDerived =>
        \E p \in Perms(Len(df)) : \A i \in 1..Len(df) :
            C8_RowOk(df[i], InputRate(p[i], "SurvivalRate"),
                     InputRate(p[i], "ImmediateReworkRate"))

\* C8 (amended): so it is for every record whose two rates are finite or
\* missing.
C8_IndexDefinedForFiniteRates ==
    HasDerived =>
        \E p \in Perms(Len(df)) : \A i \in 1..Len(df) :
            LET s0 == InputRate(p[i], "SurvivalRate")
                r0 == InputRate(p[i], "ImmediateReworkRate")
            IN  /\ df[i]["SurvivalRate"] = FillNa(s0, FromInt(0))
                /\ df[i]["ImmediateReworkRate"] = r0
                /\ (FiniteOrNaN(s0) /\ FiniteOrNaN(r0)) => C8_RowOk(df[i], s0, r0)

\* C8's case: a derived frame with a row without rework whose index is its
\* survival rate 1/2, and a row without survival whose index is 0.
C8_Witness ==
    /\ stage = "done"
    /\ {"SurvivalRate", "ImmediateReworkRate"} \subseteq file.cols
    /\ \E i, j \in 1..Len(df) :
          /\ IsNaN(df[i]["ImmediateReworkRate"]) /\ df[i]["AI_Quality_Index"] = Half
          /\ df[j]["ImmediateReworkRate"] = Half /\ df[j]["AI_Quality_Index"] = FromInt(0)
    /\ \E i \in 1..Len(file.rows) : IsNaN(InputRate(i, "SurvivalRate"))

RecordDays == {DayOf(df[i]["Date"]) : i \in {k \in 1..Len(df) : df[k]["Date"] # NaT}}
HasRolled == stage \in {"rolled", "done"}
SeqSet(q) == {q[k] : k \in 1..Len(q)}

DayValues(c, day) ==
    Column(SelectSeq(df, LAMBDA r : r["Date"] # NaT /\ DayOf(r["Date"]) = day), c)

AllFinite(q) == \A k \in 1..Len(q) : IsFinite(q[k])

====
